---- MODULE Spec2Model ----
(***************************************************************************)
(* simferm.py: a fermentation simulator.  main() interpolates temperature  *)
(* and gravity once per second, writes every sample to simferm.log and     *)
(* sends it to a Tilt-Sim device with curl, and paces the loop on the wall *)
(* clock.                                                                  *)
(*                                                                         *)
(* Number representation.  The program computes with Python floats; the    *)
(* model computes the same expressions exactly, as scaled integers:        *)
(*   - configured temperatures are hundredths of a degree Fahrenheit       *)
(*     (10130 is 101.3 F);                                                 *)
(*   - configured gravities are ten-thousandths (10615 is 1.0615);         *)
(*   - start_temp, temp_change_per_interval and gravity are kept           *)
(*     multiplied by number_of_changes (n), so that the division by n in   *)
(*     lines 133 and 175 is exact: start_temp = n * (milli-degrees C),     *)
(*     gravity = n * (ten-thousandths);                                    *)
(*   - current_temp_fahrenheit is n * (ten-thousandths of a degree F);     *)
(*   - what is written to the log and sent to the device is the formatted  *)
(*     value: tenths of a degree ({:.1f}) and ten-thousandths ({:.4f}).    *)
(* IEEE rounding error of the float operations (about 1e-11 of the units   *)
(* above) is not modelled; int() truncation and the rounding done by the   *)
(* format specifications are.                                              *)
(* The clock counts 1/Res seconds since start_time.                        *)
(***************************************************************************)
EXTENDS Integers, Sequences, FiniteSets, TLC

VARIABLES
    DEFAULTS,                  \* resolved parameters (lines 18-26, 113-122)
    pc,                        \* NotStarted, Running, Completed, Crashed
    exit_code,                 \* <<>> while the process lives, else <<code>>
    i,                         \* iterations of the loop completed
    direction,
    start_temp,                \* current temperature, n * milli-degrees C
    end_temp,                  \* target, milli-degrees C
    number_of_changes,
    temp_change_per_interval,  \* n * (milli-degrees C per tick)
    gravity,                   \* n * ten-thousandths
    final_gravity,             \* ten-thousandths
    current_temp_fahrenheit,   \* n * ten-thousandths of a degree F
    start_temp_fahrenheit,     \* hundredths of a degree F
    log_file,                  \* the records simferm.log holds
    log_ok,                    \* environment: the log file still accepts writes
    curl_calls,                \* the notifications sent, in order
    clock,                     \* time.time() - start_time, in 1/Res seconds
    elapsed_time,
    sleep_time

vars == <<DEFAULTS, pc, exit_code, i, direction, start_temp, end_temp,
          number_of_changes, temp_change_per_interval, gravity, final_gravity,
          current_temp_fahrenheit, start_temp_fahrenheit, log_file, log_ok,
          curl_calls, clock, elapsed_time, sleep_time>>

----------------------------------------------------------------------------
(* Bounds and inputs *)

MaxTime == 1                \* --time ranges over 0..MaxTime minutes
MaxWork == 3                \* a step's work takes 0..MaxWork clock units
Res == 2                    \* clock units per second

SecondsPerMinute == 60

StartTemps == {2030, 5530, 10130}
FinalTemps == {2025, 5530, 5575}
Gravities == {10150, 10615}
Durations == 0..MaxTime
Work == 0..MaxWork

----------------------------------------------------------------------------
(* Arithmetic *)

Abs(x) == IF x < 0 THEN -x ELSE x

Max(a, b) == IF a >= b THEN a ELSE b

Min(a, b) == IF a <= b THEN a ELSE b

\* int(x): truncation toward zero of a / b, b > 0
TruncDiv(a, b) == IF a >= 0 THEN a \div b ELSE -((-a) \div b)

\* round-half-even of num / den, den > 0: what a format specification does
RoundHalfEven(num, den) ==
    LET q == num \div den
        r == num % den
    IN  IF 2 * r < den THEN q
        ELSE IF 2 * r > den THEN q + 1
        ELSE IF q % 2 = 0 THEN q ELSE q + 1

\* int((f - 32) * 5/9 * 1000), f in hundredths of a degree F
ToMilliC(f100) == TruncDiv((f100 - 3200) * 50, 9)

\* t / 1000 * 9/5 + 32, t = n * milli-degrees C; result n * 1e-4 degrees F
ToFahrenheit(t, n) == t * 18 + 320000 * n

\* {current_temp_fahrenheit:.1f}: tenths of a degree F
FmtTemp(f, n) == RoundHalfEven(f, 1000 * n)

\* {DEFAULTS['finaltemp']:.1f}, {start_temp_fahrenheit:.1f}: tenths of a degree F
FmtCfgTemp(f100) == RoundHalfEven(f100, 10)

\* {gravity:.4f}: ten-thousandths
FmtGravity(g, n) == RoundHalfEven(g, n)

determine_direction(s, e) == IF s > e THEN "down" ELSE "up"

NumberOfChangesOffByOne(t) == t * SecondsPerMinute + 1

NumberOfChanges(t) == t * SecondsPerMinute

----------------------------------------------------------------------------
(* The two sinks *)

LogEntry(kind, temp, grav) == [kind |-> kind, temp |-> temp, gravity |-> grav]

\* update_log with the two lines of the summary written in the opposite order.
update_log_swapped(file, temp, grav, start_f, og, is_start, is_end, ok1, ok2) ==
    IF is_start THEN
        IF ok1 THEN Append(file, LogEntry("start", temp, grav)) ELSE file
    ELSE IF is_end THEN
        IF ~ok1 THEN file
        ELSE IF ~ok2 THEN Append(file, LogEntry("complete", temp, grav))
        ELSE Append(Append(file, LogEntry("complete", temp, grav)),
                    LogEntry("at_start", start_f, og))
    ELSE
        IF ok1 THEN Append(file, LogEntry("tick", temp, grav)) ELSE file

\* update_log: temp and grav are the formatted current values, start_f and
\* og the formatted start_temp_fahrenheit and DEFAULTS['og'].  ok1 and ok2
\* say whether the first and the second write succeed; a write that raises
\* leaves the rest of the function unexecuted and the exception is swallowed.
update_log(file, temp, grav, start_f, og, is_start, is_end, ok1, ok2) ==
    IF is_start THEN
        IF ok1 THEN Append(file, LogEntry("start", temp, grav)) ELSE file
    ELSE IF is_end THEN
        IF ~ok1 THEN file
        ELSE IF ~ok2 THEN Append(file, LogEntry("at_start", start_f, og))
        ELSE Append(Append(file, LogEntry("at_start", start_f, og)),
                    LogEntry("complete", temp, grav))
    ELSE
        IF ok1 THEN Append(file, LogEntry("tick", temp, grav)) ELSE file

\* execute_curl_command: the request carries sg and temp; the outcome of the
\* request (a failure, a non-zero exit of curl) changes nothing in the program.
execute_curl_command(calls, temp, grav) ==
    Append(calls, [sg |-> grav, temp |-> temp])

\* The outcomes a write can have: none but failure once the file is broken.
WriteOutcomes == IF log_ok THEN BOOLEAN ELSE {FALSE}

----------------------------------------------------------------------------
(* The loop body's steps *)

TargetReached ==
    \/ direction = "up" /\ start_temp >= end_temp * number_of_changes
    \/ direction = "down" /\ start_temp <= end_temp * number_of_changes

LoopRunsShort == i < number_of_changes - 1 /\ ~TargetReached

\* for i in range(number_of_changes), and no break
LoopRuns == i < number_of_changes /\ ~TargetReached

AdvanceTempNoAbs(dir, t, d) == IF dir = "up" THEN t + d ELSE t - d

AdvanceTemp(dir, t, d) == IF dir = "up" THEN t + Abs(d) ELSE t - Abs(d)

GravityChangeSignSlip(og, final) == final - og

\* gravity_change, times number_of_changes
GravityChange(og, final) == og - final

AdvanceGravity(g, og, final, n) == Max(final * n, g - GravityChange(og, final))

NaiveSleep(s) == Res

\* if sleep_time > 0: time.sleep(sleep_time)
SleepFor(s) == IF s > 0 THEN s ELSE 0

----------------------------------------------------------------------------
(* State machine *)

Init ==
    /\ DEFAULTS \in [starttemp : StartTemps, finaltemp : FinalTemps,
                     og : Gravities, fg : Gravities, time : Durations]
    /\ pc = "NotStarted"
    /\ exit_code = <<>>
    /\ i = 0
    /\ direction = "up"
    /\ start_temp = 0
    /\ end_temp = 0
    /\ number_of_changes = 0
    /\ temp_change_per_interval = 0
    /\ gravity = 0
    /\ final_gravity = 0
    /\ current_temp_fahrenheit = 0
    /\ start_temp_fahrenheit = 0
    /\ log_file = <<>>
    /\ log_ok = TRUE
    /\ curl_calls = <<>>
    /\ clock = 0
    /\ elapsed_time = 0
    /\ sleep_time = 0

\* main(), lines 125-133 with --time 0: total_temp_change / 0 raises
\* ZeroDivisionError, which nothing catches: traceback, exit status 1.
MainZeroDivisionError ==
    /\ pc = "NotStarted"
    /\ NumberOfChanges(DEFAULTS.time) = 0
    /\ pc' = "Crashed"
    /\ exit_code' = <<1>>
    /\ end_temp' = ToMilliC(DEFAULTS.finaltemp)
    /\ direction' = determine_direction(ToMilliC(DEFAULTS.starttemp), end_temp')
    /\ UNCHANGED <<DEFAULTS, i, start_temp, number_of_changes,
                   temp_change_per_interval, gravity, final_gravity,
                   current_temp_fahrenheit, start_temp_fahrenheit, log_file,
                   log_ok, curl_calls, clock, elapsed_time, sleep_time>>

\* main(), lines 125-152: set up, open the log, write the start line.
\* w is the time from start_time (line 138) to the loop's first iteration.
MainStart(w, ok) ==
    /\ pc = "NotStarted"
    /\ NumberOfChanges(DEFAULTS.time) # 0
    /\ LET n  == NumberOfChanges(DEFAULTS.time)
           s  == ToMilliC(DEFAULTS.starttemp)
           e  == ToMilliC(DEFAULTS.finaltemp)
           g  == Max(DEFAULTS.og, DEFAULTS.fg) * n
           f  == ToFahrenheit(s * n, n)
       IN  /\ number_of_changes' = n
           /\ start_temp' = s * n
           /\ end_temp' = e
           /\ direction' = determine_direction(s, e)
           /\ temp_change_per_interval' = e - s
           /\ gravity' = g
           /\ final_gravity' = Min(DEFAULTS.og, DEFAULTS.fg)
           /\ current_temp_fahrenheit' = f
           /\ start_temp_fahrenheit' = DEFAULTS.starttemp
           /\ log_file' = update_log(<<>>, FmtTemp(f, n), FmtGravity(g, n),
                                     FmtCfgTemp(DEFAULTS.starttemp), DEFAULTS.og,
                                     TRUE, FALSE, ok, ok)
    /\ log_ok' = ok
    /\ clock' = w
    /\ pc' = "Running"
    /\ UNCHANGED <<DEFAULTS, exit_code, i, curl_calls, elapsed_time, sleep_time>>

\* One iteration of the loop, lines 155-182.  w is the time the iteration's
\* work (the log write and the curl call) takes.
Tick(w, ok) ==
    /\ pc = "Running"
    /\ LoopRuns
    /\ LET n == number_of_changes
           t == AdvanceTemp(direction, start_temp, temp_change_per_interval)
           f == ToFahrenheit(t, n)
       IN  /\ start_temp' = t
           /\ current_temp_fahrenheit' = f
           /\ log_file' = update_log(log_file, FmtTemp(f, n), FmtGravity(gravity, n),
                                     FmtCfgTemp(start_temp_fahrenheit), DEFAULTS.og,
                                     FALSE, FALSE, ok, ok)
           /\ curl_calls' = execute_curl_command(curl_calls, FmtTemp(f, n),
                                                 FmtGravity(gravity, n))
           /\ gravity' = AdvanceGravity(gravity, DEFAULTS.og, final_gravity, n)
    /\ log_ok' = ok
    /\ elapsed_time' = clock + w
    /\ sleep_time' = (i + 1) * Res - elapsed_time'
    /\ clock' = elapsed_time' + SleepFor(sleep_time')
    /\ i' = i + 1
    /\ UNCHANGED <<DEFAULTS, pc, exit_code, direction, end_temp, number_of_changes,
                   temp_change_per_interval, final_gravity, start_temp_fahrenheit>>

\* After the loop, lines 184-193: the final curl call, the summary, exit 0.
MainFinish(w, ok1, ok2) ==
    /\ pc = "Running"
    /\ ~LoopRuns
    /\ LET n == number_of_changes
           t == FmtTemp(current_temp_fahrenheit, n)
           g == FmtGravity(gravity, n)
       IN  /\ curl_calls' = execute_curl_command(curl_calls, t, g)
           /\ log_file' = update_log(log_file, t, g,
                                     FmtCfgTemp(start_temp_fahrenheit), DEFAULTS.og,
                                     FALSE, TRUE, ok1, ok2)
    /\ log_ok' = ok2
    /\ clock' = clock + w
    /\ pc' = "Completed"
    /\ exit_code' = <<0>>
    /\ UNCHANGED <<DEFAULTS, i, direction, start_temp, end_temp, number_of_changes,
                   temp_change_per_interval, gravity, final_gravity,
                   current_temp_fahrenheit, start_temp_fahrenheit,
                   elapsed_time, sleep_time>>

\* Every run of the program, with a log file that may stop accepting writes;
\* the work of each step takes no measurable time.
Next ==
    \/ MainZeroDivisionError
    \/ \E ok \in WriteOutcomes : MainStart(0, ok)
    \/ \E ok \in WriteOutcomes : Tick(0, ok)
    \/ \E ok1 \in WriteOutcomes : \E ok2 \in {b \in BOOLEAN : b => ok1} :
           MainFinish(0, ok1, ok2)

Spec == Init /\ [][Next]_vars

\* The pacing of the loop: the default temperatures and gravities, a log that
\* works, and steps whose work (a slow write, a slow or failing curl) takes
\* any time in Work.
InitPacing ==
    /\ Init
    /\ DEFAULTS.starttemp = 10130
    /\ DEFAULTS.finaltemp = 5530
    /\ DEFAULTS.og = 10615
    /\ DEFAULTS.fg = 10150

NextPacing ==
    \/ MainZeroDivisionError
    \/ \E w \in Work : MainStart(w, TRUE)
    \/ \E w \in Work : Tick(w, TRUE)
    \/ \E w \in Work : MainFinish(w, TRUE, TRUE)

SpecPacing == InitPacing /\ [][NextPacing]_vars

----------------------------------------------------------------------------
(* Properties *)

Started == pc \in {"Running", "Completed"}

StartMilliC == ToMilliC(DEFAULTS.starttemp)

HighGravity == Max(DEFAULTS.og, DEFAULTS.fg)

LowGravity == Min(DEFAULTS.og, DEFAULTS.fg)

Between(lo, x, hi) == (lo <= x /\ x <= hi) \/ (hi <= x /\ x <= lo)

Last(seq) == seq[Len(seq)]

Records(kind) == {j \in DOMAIN log_file : log_file[j].kind = kind}

\* C1, state part: the current temperature lies between the temperature the
\* run started from and the target, and so does every temperature sent; the
\* temperatures sent are in the order of the direction.
C1_TempInRange ==
    Started =>
        LET n == number_of_changes
        IN  /\ Between(StartMilliC * n, start_temp, end_temp * n)
            /\ \A j \in DOMAIN curl_calls :
                   Between(FmtTemp(ToFahrenheit(StartMilliC * n, n), n),
                           curl_calls[j].temp,
                           FmtTemp(ToFahrenheit(end_temp * n, n), n))
            /\ \A j \in 1..(Len(curl_calls) - 1) :
                   IF end_temp >= StartMilliC
                   THEN curl_calls[j].temp <= curl_calls[j + 1].temp
                   ELSE curl_calls[j].temp >= curl_calls[j + 1].temp

\* C1, step part: no step of a started run moves the temperature against
\* the direction fixed at the start.
C1_TempStep ==
    Started =>
        IF end_temp >= StartMilliC THEN start_temp' >= start_temp
                                   ELSE start_temp' <= start_temp

C2_FinalGravityIsMin ==
    pc = "Completed" =>
        /\ Last(curl_calls).sg = LowGravity
        /\ \A j \in Records("complete") : log_file[j].gravity = LowGravity

\* C3, state part: min(OG,FG) <= gravity <= max(OG,FG), and the gravities
\* sent are non-increasing.
C3_GravityInRange ==
    Started =>
        /\ LowGravity * number_of_changes <= gravity
        /\ gravity <= HighGravity * number_of_changes
        /\ \A j \in DOMAIN curl_calls :
               /\ LowGravity <= curl_calls[j].sg
               /\ curl_calls[j].sg <= HighGravity
        /\ \A j \in 1..(Len(curl_calls) - 1) :
               curl_calls[j].sg >= curl_calls[j + 1].sg

\* C3, step part: no step of a started run raises gravity.
C3_GravityStep == Started => gravity' <= gravity

\* C3: in every reachable state of a run the current gravity is between
\* min(OG,FG) and max(OG,FG), and no tick ever raises gravity, for every
\* OG/FG pair.
C3_GravityBoundedNonIncreasing == [](C3_GravityInRange) /\ [][C3_GravityStep]_vars

\* C3 witness: a full run from OG > FG that has come down to FG.
C3_Witness ==
    /\ pc = "Completed"
    /\ DEFAULTS.og > DEFAULTS.fg
    /\ i = number_of_changes
    /\ gravity = LowGravity * number_of_changes
    /\ curl_calls[1].sg = HighGravity
    /\ Last(curl_calls).sg = LowGravity

\* C4 as stated: when a run reaches Completed the temperature of the final
\* notification and of the 'Simulation Complete' record is the configured
\* end temperature.
C4_FinalTempIsConfigured ==
    pc = "Completed" =>
        /\ Last(curl_calls).temp = FmtCfgTemp(DEFAULTS.finaltemp)
        /\ \A j \in Records("complete") :
               log_file[j].temp = FmtCfgTemp(DEFAULTS.finaltemp)

\* C4 amended: when a run reaches Completed the temperature it reports is
\* within 0.002 F of the configured end temperature (it is that of end_temp,
\* the target truncated to a whole milli-degree Celsius), and as reported
\* (one decimal) it equals the configured end temperature whenever that is
\* a multiple of 0.1 F.
C4_FinalTempIsTruncatedTarget ==
    pc = "Completed" =>
        LET n == number_of_changes
            f == ToFahrenheit(end_temp * n, n)
        IN  /\ start_temp = end_temp * n
            /\ current_temp_fahrenheit = f
            /\ Abs(f - DEFAULTS.finaltemp * 100 * n) < 20 * n
            /\ Last(curl_calls).temp = FmtTemp(f, n)
            /\ \A j \in Records("complete") : log_file[j].temp = FmtTemp(f, n)
            /\ DEFAULTS.finaltemp % 10 = 0 =>
                   Last(curl_calls).temp * 10 = DEFAULTS.finaltemp

\* C4 witness: a completed full-length run to an end temperature that is not
\* a whole number of milli-degrees Celsius.
C4_Witness ==
    /\ pc = "Completed"
    /\ i = number_of_changes
    /\ DEFAULTS.finaltemp = 5575
    /\ Last(curl_calls).temp = 557
    /\ Records("complete") # {}

\* C5: every run goes NotStarted -> Running -> Completed and exits 0, for
\* every parameter set with a non-negative integer duration.
C5_RunCompletesExitZero ==
    /\ pc \in {"NotStarted", "Running", "Completed"}
    /\ exit_code \in {<<>>, <<0>>}
    /\ exit_code = <<0>> <=> pc = "Completed"

\* C6 as stated: in every completed run the log holds exactly one start line
\* and exactly one complete line, the start line first and the complete line
\* last.
C6_ExactlyOneStartOneComplete ==
    pc = "Completed" =>
        /\ Cardinality(Records("start")) = 1
        /\ Cardinality(Records("complete")) = 1
        /\ log_file[1].kind = "start"
        /\ Last(log_file).kind = "complete"

\* C6 amended: in every completed run the log holds at most one start line
\* and at most one complete line, and exactly one of each when no log write
\* failed; a start line is the first record of the log and a complete line
\* the last.
C6_StartAndCompleteBoundTheLog ==
    pc = "Completed" =>
        /\ Cardinality(Records("start")) <= 1
        /\ Cardinality(Records("complete")) <= 1
        /\ Records("start") \subseteq {1}
        /\ Records("complete") \subseteq {Len(log_file)}
        /\ log_ok => /\ Records("start") = {1}
                     /\ Records("complete") = {Len(log_file)}
                     /\ Len(log_file) = i + 3

\* C6 witness: a completed run of at least one tick, none of whose writes
\* failed.
C6_Witness ==
    /\ pc = "Completed"
    /\ log_ok
    /\ i = number_of_changes
    /\ Records("tick") # {}
    /\ Records("start") = {1}
    /\ Records("complete") = {Len(log_file)}

\* C7: after the last tick exactly one extra notification and one summary
\* are emitted, and the summary is accurate: its start values are the
\* temperature and gravity the run started from (those of the start line)
\* and its end values are those of the final state.
C7_SummaryAccurate ==
    pc = "Completed" =>
        LET n == number_of_changes
        IN  /\ Len(curl_calls) = i + 1
            /\ Cardinality(Records("at_start")) <= 1
            /\ \A j \in Records("at_start") :
                   /\ log_file[j].temp = FmtTemp(ToFahrenheit(StartMilliC * n, n), n)
                   /\ log_file[j].gravity = HighGravity
                   /\ \A k \in Records("start") :
                          /\ log_file[j].temp = log_file[k].temp
                          /\ log_file[j].gravity = log_file[k].gravity
            /\ \A j \in Records("complete") :
                   /\ log_file[j].temp = FmtTemp(current_temp_fahrenheit, n)
                   /\ log_file[j].gravity = FmtGravity(gravity, n)

C9_DriftCorrectedPacing ==
    (pc = "Running" /\ i >= 1) =>
        /\ clock >= i * Res
        /\ elapsed_time <= i * Res => clock = i * Res
        /\ elapsed_time >= i * Res => clock = elapsed_time
        /\ clock - elapsed_time <= Res
        /\ elapsed_time >= (i - 1) * Res

\* C9 witness: a tick whose work ended late and that did not sleep, after an
\* earlier tick that did.
C9_Witness ==
    /\ pc = "Running"
    /\ i >= 3
    /\ elapsed_time > i * Res
    /\ sleep_time < 0
    /\ clock = elapsed_time

\* C10: the k-th tick's log record and notification carry the same pair of
\* values, the state after k advances of both quantities:
\* temperature = start + k*(end - start)/steps and
\* gravity = max(OG,FG) - k*(max(OG,FG) - min(OG,FG))/steps.
C10_TickCarriesAdvancedState ==
    (pc = "Running" /\ i >= 1) =>
        LET n == number_of_changes
            t == StartMilliC * n + i * (end_temp - StartMilliC)
            g == HighGravity * n - i * (HighGravity - LowGravity)
        IN  /\ curl_calls[i].temp = FmtTemp(ToFahrenheit(t, n), n)
            /\ curl_calls[i].sg = FmtGravity(g, n)
            /\ log_ok => /\ Last(log_file).kind = "tick"
                         /\ Last(log_file).temp = curl_calls[i].temp
                         /\ Last(log_file).gravity = curl_calls[i].sg

====
